---- MODULE Spec2Model ----
(***************************************************************************)
(* Telemetry relay pipeline of the repository:                             *)
(*   src/telemetry_server.py  the token-gated HTTP dashboard service       *)
(*   src/model_train.py       the supervisor of the external worker and    *)
(*                            its pipe forwarder                           *)
(* SpecServer is the HTTP service with its log source.  SpecSupervisor is   *)
(* the supervisor's main thread and its workers, second by second.         *)
(* SpecRelay is one worker lifetime of the whole pipeline: the supervisor, *)
(* the worker, the forwarder thread, the datagram transport and the viewer *)
(* page's poll of the service, time passing one sleep at a time.           *)
(***************************************************************************)
EXTENDS Integers, Sequences, FiniteSets, TLC

(***************************************************************************)
(* Bounds of the model                                                     *)
(***************************************************************************)
\* lines the log source holds at most (the initial line included)
MaxLogLines == 3
\* capacity N of the log buffer the specification describes, scaled down
BufferCapacity == 2
\* worker processes the supervisor can create in one run
MaxSpawns == 2
\* lines the workers write to their output in one run
MaxEmit == 2
\* consecutive failed spawns that are counted
MaxFailStreak == 3
\* slack added to a deadline, in seconds
Epsilon == 1

\* the number of bytes in the long run of characters of a long worker line
LongRun == 4096

(***************************************************************************)
(* Text: a text is a sequence of characters                                *)
(***************************************************************************)
LF == "LF"

Digits == {"0", "1", "2", "3", "4", "5", "6", "7", "8", "9"}

DigitVal == [c \in Digits |->
               CASE c = "0" -> 0 [] c = "1" -> 1 [] c = "2" -> 2 [] c = "3" -> 3
                 [] c = "4" -> 4 [] c = "5" -> 5 [] c = "6" -> 6 [] c = "7" -> 7
                 [] c = "8" -> 8 [] c = "9" -> 9]

\* value of a non-empty sequence of decimal digits
RECURSIVE DigitsValue(_)
DigitsValue(s) ==
  IF Len(s) = 0 THEN 0
  ELSE 10 * DigitsValue(SubSeq(s, 1, Len(s) - 1)) + DigitVal[s[Len(s)]]

AllDigits(s) == Len(s) > 0 /\ \A i \in DOMAIN s : s[i] \in Digits

\* int(text): an optional sign and at least one digit, anything else raises
\* ValueError (ok = FALSE)
ParseInt(s) ==
  IF Len(s) > 0 /\ s[1] \in {"-", "+"}
  THEN IF AllDigits(Tail(s))
       THEN [ok |-> TRUE,
             val |-> IF s[1] = "-" THEN 0 - DigitsValue(Tail(s))
                     ELSE DigitsValue(Tail(s))]
       ELSE [ok |-> FALSE, val |-> 0]
  ELSE IF AllDigits(s) THEN [ok |-> TRUE, val |-> DigitsValue(s)]
       ELSE [ok |-> FALSE, val |-> 0]

\* the decimal digit of a value below ten
DigitChar(d) == CHOOSE c \in Digits : DigitVal[c] = d

\* '' + n of the page script: the decimal digits of a number that is not
\* negative, without leading zeros
RECURSIVE FormatInt(_)
FormatInt(n) ==
  IF n < 10 THEN <<DigitChar(n)>>
  ELSE Append(FormatInt(n \div 10), DigitChar(n % 10))

\* number of line terminators in a text
RECURSIVE CountLines(_)
CountLines(s) ==
  IF Len(s) = 0 THEN 0
  ELSE (IF Head(s) = LF THEN 1 ELSE 0) + CountLines(Tail(s))

(***************************************************************************)
(* telemetry_server.py: configuration                                      *)
(***************************************************************************)
ACCESS_TOKEN == <<"G", "r", "a", "d", "i", "e", "n", "t", "A", "l", "p", "h", "a">>

\* the characters of "Bearer " that the handler puts before the token
BearerPrefix == <<"B", "e", "a", "r", "e", "r", " ">>

\* the file the service reads, as a path below the working directory
LOG_FILE_PATH == "/miner_live.log"

\* the line __main__ writes when it creates the log file
InitialLog == <<"[SYSTEM] Log stream initialized.", LF>>

DASHBOARD_TEMPLATE == "DASHBOARD_TEMPLATE"
DENIED_TEXT == "Gradient AI Security: ACCESS DENIED. Invalid Token."
NOT_FOUND_TEXT == "Endpoint Not Found"
ERROR_PREFIX == "[SYSTEM ERROR] Could not read log stream: "

(***************************************************************************)
(* Requests the model sends                                                *)
(***************************************************************************)
WrongToken == <<"g", "r", "a", "d", "i", "e", "n", "t", "A", "l", "p", "h", "a">>

\* values of the token query parameter: blank, the secret, another string
TokenValues == {<<>>, ACCESS_TOKEN, WrongToken}

\* values of the pos query parameter: blank, inside the file, beyond its end,
\* negative, not a number
PosValues == {<<>>, <<"2">>, <<"9">>, <<"-", "1">>, <<"x">>}

\* Authorization header: absent (<<>>) or one value
AuthHeaders ==
  {<<>>, <<BearerPrefix \o ACCESS_TOKEN>>, <<BearerPrefix \o WrongToken>>,
   <<ACCESS_TOKEN>>}

TokenParts == {<<>>} \cup {<< <<"token", v>> >> : v \in TokenValues}
PosParts == {<<>>} \cup {<< <<"pos", v>> >> : v \in PosValues}

\* GET: the snapshot path with every pos value, the other paths without pos
GetRequests ==
  [method : {"GET"}, path : {"/stream"},
   query : {t \o p : t \in TokenParts, p \in PosParts}, auth : AuthHeaders]
  \cup [method : {"GET"}, path : {"/", "/other"},
        query : TokenParts, auth : AuthHeaders]

OtherRequests ==
  [method : {"HEAD", "POST"}, path : {"/", LOG_FILE_PATH, "/stream"},
   query : {<<>>, << <<"token", ACCESS_TOKEN>> >>},
   auth : {<<>>, <<BearerPrefix \o ACCESS_TOKEN>>}]

Requests == GetRequests \cup OtherRequests

\* lines an external writer appends to the log source
LogLines == {<<"a", LF>>, <<"b", LF>>}

\* the lines appended while a viewer page polls: a short one and one that takes
\* the position to two digits
ViewerLines == {<<"a", LF>>, <<"h", "a", "s", "h", "r", "a", "t", "e", LF>>}

(***************************************************************************)
(* State                                                                   *)
(***************************************************************************)
VARIABLES
  logFile,    \* content of LOG_FILE_PATH, a text
  req,        \* the request handled last
  resp,       \* the response to it (status 0: the connection closed unanswered)
  steps,      \* what the handler did for it, in order: "auth", "route", "file"
  prevResp,   \* the response before, when it answered the same request
  appended,   \* a line was appended to the log file since resp
  quiet,      \* resp and prevResp answer the same request, no append between
  lastPosition, \* lastPosition of the viewer page's script
  shown       \* the logs the page appended to its console, concatenated

viewerVars == <<lastPosition, shown>>

serverVars ==
  <<logFile, req, resp, steps, prevResp, appended, quiet, viewerVars>>

VARIABLES
  pc,           \* where the supervisor's main thread is
  cur,          \* miner_process: the handle the main loop holds, 0 for None
  proc,         \* the handle launch_ghost_miner holds before it returns, 0 for none
  nSpawn,       \* handles created so far; handle h is the h-th process
  worker,       \* worker[h]: "none", "alive" or "dead"
  rc,           \* rc[h]: the exit status of h once it is dead
  termReq,      \* handles whose terminate() was called
  exitCause,    \* how the supervisor process ended: "", "sys.exit", or the
                \* exception that left the main thread
  lastLog,      \* the last message written to public_logger
  failStreak,   \* consecutive spawn attempts that returned None
  timer,        \* seconds left of the sleep the main thread is in
  exitAge,      \* seconds since the newest worker terminated, -1 when it has
                \* not or when a later spawn attempt has begun
  sinceAttempt, \* seconds since the last spawn attempt began
  fwd,          \* fwd[h]: the forwarder thread of handle h
  pipe,         \* pipe[h]: lines written to the output of h and not yet read
  nEmit,        \* lines written by all workers so far
  emitted,      \* emitted[h]: the lines h wrote to its output, in order
  attempts,     \* attempts[h]: the payloads the forwarder of h passed to
                \* sendto, in order
  inflight,     \* datagrams sent and not yet arrived or lost
  delivered,    \* datagrams that arrived at 127.0.0.1:65000
  seenAtPoll    \* delivered, as it was when resp was produced

supVars ==
  <<pc, cur, proc, nSpawn, worker, rc, termReq, exitCause, lastLog, failStreak,
    timer, exitAge, sinceAttempt>>

histVars == <<emitted, attempts>>

relayVars == <<fwd, pipe, nEmit, inflight, delivered, histVars>>

vars == <<serverVars, supVars, relayVars, seenAtPoll>>

(***************************************************************************)
(* telemetry_server.py: SecureRequestHandler                               *)
(***************************************************************************)
NoBody == [kind |-> "none", text |-> "", logs |-> <<>>, position |-> 0]

TextBody(t) == [kind |-> "text", text |-> t, logs |-> <<>>, position |-> 0]

JsonBody(l, p) == [kind |-> "json", text |-> "", logs |-> l, position |-> p]

\* _send_response(code, content_type, content)
send_response(code, content_type, content) ==
  [status |-> code, ctype |-> content_type, body |-> content]

\* the handler raised: socketserver closes the connection, nothing was sent
NoResponse == [status |-> 0, ctype |-> "", body |-> NoBody]

NoRequest == [method |-> "", path |-> "", query |-> <<>>, auth |-> <<>>]

\* parse_qs: the values of each key in order; blank values are dropped, so a
\* key with blank values only is not in the result
ValuesOf(query, key) ==
  LET sel == SelectSeq(query, LAMBDA p : p[1] = key /\ p[2] # <<>>)
  IN  [i \in DOMAIN sel |-> sel[i][2]]

parse_qs(query) ==
  [k \in {query[i][1] : i \in {j \in DOMAIN query : query[j][2] # <<>>}}
     |-> ValuesOf(query, k)]

\* _check_auth that only looks for the token parameter and never compares it
check_auth_any_token(r) ==
  LET query_components == parse_qs(r.query)
  IN  \/ "token" \in DOMAIN query_components
      \/ /\ r.auth # <<>>
         /\ r.auth[1] = BearerPrefix \o ACCESS_TOKEN

\* _check_auth: the first token query value, else the Authorization header
check_auth(r) ==
  LET query_components == parse_qs(r.query)
  IN  \/ /\ "token" \in DOMAIN query_components
         /\ query_components["token"][1] = ACCESS_TOKEN
      \/ /\ r.auth # <<>>
         /\ r.auth[1] # <<>>
         /\ r.auth[1] = BearerPrefix \o ACCESS_TOKEN

\* a read that continues from the position served last instead of seeking to
\* the requested one
ReadLogFromCursor(file, position) ==
  LET cursor == IF resp.body.kind = "json" /\ resp.body.position >= 0
                THEN resp.body.position ELSE 0
  IN  JsonBody(SubSeq(file, cursor + 1, Len(file)),
               IF cursor > Len(file) THEN cursor ELSE Len(file))

\* open(LOG_FILE_PATH), f.seek(position), f.read(), f.tell()
ReadLog(file, position) ==
  IF position < 0
  THEN JsonBody(<<ERROR_PREFIX, "negative seek position">>, position)
  ELSE JsonBody(SubSeq(file, position + 1, Len(file)),
                IF position > Len(file) THEN position ELSE Len(file))

\* the /stream branch of do_GET; int() is outside the try block
stream(r, file) ==
  LET query_components == parse_qs(r.query)
      position == IF "pos" \in DOMAIN query_components
                  THEN ParseInt(query_components["pos"][1])
                  ELSE [ok |-> TRUE, val |-> 0]
  IN  IF ~position.ok
      THEN [resp |-> NoResponse, steps |-> <<"auth", "route">>]
      ELSE [resp |-> send_response(200, "application/json",
                                   ReadLog(file, position.val)),
            steps |-> <<"auth", "route", "file">>]

\* do_GET that routes first and checks the credential on known paths only
do_GET_route_first(r, file) ==
  IF r.path \notin {"/", "/stream"}
  THEN [resp |-> send_response(404, "text/plain", TextBody(NOT_FOUND_TEXT)),
        steps |-> <<"route">>]
  ELSE IF ~check_auth(r)
  THEN [resp |-> send_response(403, "text/plain", TextBody(DENIED_TEXT)),
        steps |-> <<"route", "auth">>]
  ELSE IF r.path = "/"
  THEN [resp |-> send_response(200, "text/html", TextBody(DASHBOARD_TEMPLATE)),
        steps |-> <<"route", "auth">>]
  ELSE stream(r, file)

do_GET(r, file) ==
  IF ~check_auth(r)
  THEN [resp |-> send_response(403, "text/plain", TextBody(DENIED_TEXT)),
        steps |-> <<"auth">>]
  ELSE IF r.path = "/"
  THEN [resp |-> send_response(200, "text/html", TextBody(DASHBOARD_TEMPLATE)),
        steps |-> <<"auth", "route">>]
  ELSE IF r.path = "/stream"
  THEN stream(r, file)
  ELSE [resp |-> send_response(404, "text/plain", TextBody(NOT_FOUND_TEXT)),
        steps |-> <<"auth", "route">>]

\* do_HEAD is inherited from SimpleHTTPRequestHandler: it maps the path to a
\* file below the working directory and answers with that file's headers
do_HEAD(r) ==
  IF r.path \in {"/", LOG_FILE_PATH}
  THEN [resp |-> send_response(200, "file", NoBody), steps |-> <<"file">>]
  ELSE [resp |-> send_response(404, "text/html", NoBody), steps |-> <<"file">>]

\* BaseHTTPRequestHandler calls do_<METHOD>, and answers 501 when the class
\* has no such method
handle_one_request(r, file) ==
  IF r.method = "GET" THEN do_GET(r, file)
  ELSE IF r.method = "HEAD" THEN do_HEAD(r)
  ELSE [resp |-> send_response(501, "text/html", NoBody), steps |-> <<>>]

(***************************************************************************)
(* Actions of the HTTP service                                             *)
(***************************************************************************)
ServerInit ==
  /\ logFile = InitialLog
  /\ req = NoRequest
  /\ resp = NoResponse
  /\ steps = <<>>
  /\ prevResp = NoResponse
  /\ appended = FALSE
  /\ quiet = FALSE
  /\ seenAtPoll = {}
  /\ lastPosition = 0
  /\ shown = <<>>

\* the server's side of one request, handled to its end
Handle(r) ==
  LET out == handle_one_request(r, logFile)
  IN  /\ req' = r
      /\ resp' = out.resp
      /\ steps' = out.steps
      /\ prevResp' = IF r = req THEN resp ELSE NoResponse
      /\ quiet' = (r = req /\ ~appended)
      /\ appended' = FALSE
      /\ seenAtPoll' = delivered
      /\ UNCHANGED <<logFile, supVars, relayVars>>

\* one request of any client other than the page's script
HandleRequest(r) == Handle(r) /\ UNCHANGED viewerVars

\* the request fetchLogs makes: '/stream?pos=' + lastPosition, with the page's
\* token in the Authorization header
FetchRequest(position, token) ==
  [method |-> "GET", path |-> "/stream",
   query |-> << <<"pos", FormatInt(position)>> >>,
   auth |-> <<BearerPrefix \o token>>]

\* fetchLogs whose answer keeps the position it asked with
fetchLogs_keep_position(token) ==
  LET r == FetchRequest(lastPosition, token)
      data == handle_one_request(r, logFile).resp
  IN  /\ Handle(r)
      /\ IF data.status = 200 /\ data.body.kind = "json" /\ Len(data.body.logs) > 0
         THEN /\ shown' = shown \o data.body.logs
              /\ UNCHANGED lastPosition
         ELSE UNCHANGED viewerVars

\* fetchLogs of the page's script, with the server's answer: 403 and a closed
\* connection change nothing; logs that are not empty are appended to the
\* console and lastPosition becomes data.position
fetchLogs(token) ==
  LET r == FetchRequest(lastPosition, token)
      data == handle_one_request(r, logFile).resp
  IN  /\ Handle(r)
      /\ IF data.status = 200 /\ data.body.kind = "json" /\ Len(data.body.logs) > 0
         THEN /\ shown' = shown \o data.body.logs
              /\ lastPosition' = data.body.position
         ELSE UNCHANGED viewerVars

\* an external writer appends one line to the log file
AppendLog(line) ==
  /\ CountLines(logFile) < MaxLogLines
  /\ logFile' = logFile \o line
  /\ appended' = TRUE
  /\ UNCHANGED <<req, resp, steps, prevResp, quiet, viewerVars>>
  /\ UNCHANGED <<seenAtPoll, supVars, relayVars>>

ServerNext ==
  \/ \E r \in Requests : HandleRequest(r)
  \/ \E line \in LogLines : AppendLog(line)

\* a viewer page polling while the log source grows
ViewerNext ==
  \/ \E token \in {ACCESS_TOKEN, WrongToken} : fetchLogs(token)
  \/ \E line \in ViewerLines : AppendLog(line)


(***************************************************************************)
(* model_train.py: configuration                                           *)
(***************************************************************************)
\* time.sleep(5) of the main loop between two spawn attempts
RESTART_DELAY == 5
\* time.sleep(5) of the monitoring loop between two polls
BATCH_SLEEP == 5
\* the sleeps of the objects run_fake_training_loop constructs before its
\* first poll add up to 1.7 s: between 1 and 2 whole seconds
SETUP_MIN == 1
SETUP_MAX == 2
\* the clocks of the model stop counting here
ClockCap == 12

Handles == 1..MaxSpawns

\* the n-th line the workers write: n characters and the line terminator
WorkerLine(n) == [i \in 1..n |-> "x"] \o <<LF>>

\* a run of LongRun characters without a line terminator, as one element
Block == "x * LongRun"

\* the n-th line when it is a long one: a run of LongRun characters first
LongLine(n) == <<Block>> \o WorkerLine(n)

\* len(payload) in bytes
RECURSIVE ByteLen(_)
ByteLen(text) ==
  IF Len(text) = 0 THEN 0
  ELSE (IF Head(text) = Block THEN LongRun ELSE 1) + ByteLen(Tail(text))

\* the datagram udp_stream_handler sends first
AttachBanner == <<"--- [GHOST STREAM ATTACHED] ", "now", " ---", LF>>

\* exit statuses of the worker: success, failure
ExitCodes == {0, 1}

\* the locations of the main thread that lie inside the try block
InTry == {"setup", "poll", "batch"}

Sleeping == {"setup", "batch", "delay"}

SystemInit ==
  /\ pc = "launch"
  /\ cur = 0
  /\ proc = 0
  /\ nSpawn = 0
  /\ worker = [h \in Handles |-> "none"]
  /\ rc = [h \in Handles |-> 0]
  /\ termReq = {}
  /\ exitCause = ""
  /\ lastLog = ""
  /\ failStreak = 0
  /\ timer = 0
  /\ exitAge = -1
  /\ sinceAttempt = 0
  /\ fwd = [h \in Handles |-> "none"]
  /\ pipe = [h \in Handles |-> <<>>]
  /\ nEmit = 0
  /\ emitted = [h \in Handles |-> <<>>]
  /\ attempts = [h \in Handles |-> <<>>]
  /\ inflight = {}
  /\ delivered = {}

(***************************************************************************)
(* model_train.py: launch_ghost_miner                                      *)
(***************************************************************************)
\* an exception that reaches the top of the main thread ends the process
on_spawn_error_raise ==
  [pc |-> "exited", exitCause |-> "OSError", lastLog |-> lastLog, timer |-> 0]

\* a failure branch that goes on to the next attempt without sleeping
on_spawn_error_no_delay ==
  [pc |-> "delay", exitCause |-> "", lastLog |-> "FATAL KERNEL ERROR",
   timer |-> 0]

\* except Exception: the error is logged and None returned; the main loop
\* skips the monitoring and sleeps
on_spawn_error ==
  [pc |-> "delay", exitCause |-> "", lastLog |-> "FATAL KERNEL ERROR",
   timer |-> RESTART_DELAY]

SpawnFailed ==
  /\ pc' = on_spawn_error.pc
  /\ exitCause' = on_spawn_error.exitCause
  /\ lastLog' = on_spawn_error.lastLog
  /\ timer' = on_spawn_error.timer
  /\ cur' = 0
  /\ proc' = 0
  /\ failStreak' = IF failStreak < MaxFailStreak THEN failStreak + 1 ELSE failStreak

\* subprocess.Popen(cmd, ...) returns a handle
PopenOk ==
  /\ pc = "launch"
  /\ nSpawn < MaxSpawns
  /\ nSpawn' = nSpawn + 1
  /\ worker' = [worker EXCEPT ![nSpawn + 1] = "alive"]
  /\ proc' = nSpawn + 1
  /\ pc' = "thread"
  /\ exitAge' = -1
  /\ UNCHANGED <<cur, termReq, exitCause, lastLog, failStreak, timer, sinceAttempt>>
  /\ UNCHANGED <<serverVars, relayVars, seenAtPoll, rc>>

\* subprocess.Popen raises (executable missing, permission denied)
PopenFail ==
  /\ pc = "launch"
  /\ SpawnFailed
  /\ UNCHANGED <<nSpawn, worker, termReq, exitAge, sinceAttempt>>
  /\ UNCHANGED <<serverVars, relayVars, seenAtPoll, rc>>

\* t.start() starts the forwarder thread and the handle is returned
ThreadStartOk ==
  /\ pc = "thread"
  /\ fwd' = [fwd EXCEPT ![proc] = "attach"]
  /\ cur' = proc
  /\ proc' = 0
  /\ pc' = "attached"
  /\ failStreak' = 0
  /\ UNCHANGED <<nSpawn, worker, termReq, exitCause, lastLog, timer, exitAge, sinceAttempt>>
  /\ UNCHANGED <<serverVars, pipe, nEmit, inflight, delivered, histVars, seenAtPoll, rc>>

\* threading.Thread(...).start() raises: the process exists, None is returned
ThreadStartFail ==
  /\ pc = "thread"
  /\ SpawnFailed
  /\ UNCHANGED <<nSpawn, worker, termReq, exitAge, sinceAttempt>>
  /\ UNCHANGED <<serverVars, relayVars, seenAtPoll, rc>>

(***************************************************************************)
(* model_train.py: __main__ and run_fake_training_loop                     *)
(***************************************************************************)
\* if miner_process: log, enter the try block, construct the mock objects
Attach ==
  /\ pc = "attached"
  /\ lastLog' = "Compute Kernel Attached Successfully."
  /\ pc' = "setup"
  /\ \E d \in SETUP_MIN..SETUP_MAX : timer' = d
  /\ UNCHANGED <<cur, proc, nSpawn, worker, termReq, exitCause, failStreak, exitAge, sinceAttempt>>
  /\ UNCHANGED <<serverVars, relayVars, seenAtPoll, rc>>

SetupDone ==
  /\ pc = "setup"
  /\ timer = 0
  /\ pc' = "poll"
  /\ UNCHANGED <<cur, proc, nSpawn, worker, termReq, exitCause, lastLog, failStreak, timer, exitAge, sinceAttempt>>
  /\ UNCHANGED <<serverVars, relayVars, seenAtPoll, rc>>

\* Popen.poll(): None while the process runs, else its exit status
poll(h) == [none |-> worker[h] = "alive", code |-> rc[h]]

\* a test of the truth of poll(): it misses the exit status 0
exited_truthy(h) == ~poll(h).none /\ poll(h).code # 0

\* miner_proc.poll() is not None
exited(h) == ~poll(h).none

\* if miner_proc.poll() is not None: break, else sleep 5 seconds
Poll ==
  /\ pc = "poll"
  /\ IF exited(cur)
     THEN /\ lastLog' = "Distributed Worker Process Died Unexpectedly! Restarting..."
          /\ pc' = "delay"
          /\ timer' = RESTART_DELAY
     ELSE /\ pc' = "batch"
          /\ timer' = BATCH_SLEEP
          /\ UNCHANGED lastLog
  /\ UNCHANGED <<cur, proc, nSpawn, worker, termReq, exitCause, failStreak, exitAge, sinceAttempt>>
  /\ UNCHANGED <<serverVars, relayVars, seenAtPoll, rc>>

\* the sleep of the monitoring loop is over: metrics, then the next poll
BatchDone ==
  /\ pc = "batch"
  /\ timer = 0
  /\ pc' = "poll"
  /\ UNCHANGED <<cur, proc, nSpawn, worker, termReq, exitCause, lastLog, failStreak, timer, exitAge, sinceAttempt>>
  /\ UNCHANGED <<serverVars, relayVars, seenAtPoll, rc>>

\* the sleep of the main loop is over: log, and the next spawn attempt begins
DelayDone ==
  /\ pc = "delay"
  /\ timer = 0
  /\ lastLog' = "Reinitializing System..."
  /\ pc' = "launch"
  /\ exitAge' = -1
  /\ sinceAttempt' = 0
  /\ UNCHANGED <<cur, proc, nSpawn, worker, termReq, exitCause, failStreak, timer>>
  /\ UNCHANGED <<serverVars, relayVars, seenAtPoll, rc>>

\* KeyboardInterrupt in the main thread: inside the try block the handler
\* terminates miner_process and calls sys.exit(0); anywhere else nothing
\* catches it (except Exception does not) and it ends the process
Interrupt ==
  /\ pc # "exited"
  /\ pc' = "exited"
  /\ timer' = 0
  /\ IF pc \in InTry
     THEN /\ lastLog' = "Manual Interrupt. Stopping Cluster..."
          /\ termReq' = termReq \cup {cur}
          /\ exitCause' = "sys.exit"
     ELSE /\ exitCause' = "KeyboardInterrupt"
          /\ UNCHANGED <<lastLog, termReq>>
  /\ UNCHANGED <<cur, proc, nSpawn, worker, failStreak, exitAge, sinceAttempt>>
  /\ UNCHANGED <<serverVars, relayVars, seenAtPoll, rc>>

\* a clock d seconds later; the clocks stop at ClockCap
Later(clock, d) == IF clock + d < ClockCap THEN clock + d ELSE ClockCap

\* d seconds pass while the main thread sleeps
Elapse(d) ==
  /\ pc \in Sleeping
  /\ d >= 1
  /\ d <= timer
  /\ timer' = timer - d
  /\ exitAge' = IF exitAge >= 0 THEN Later(exitAge, d) ELSE exitAge
  /\ sinceAttempt' = Later(sinceAttempt, d)
  /\ UNCHANGED <<pc, cur, proc, nSpawn, worker, termReq, exitCause, lastLog, failStreak>>
  /\ UNCHANGED <<serverVars, relayVars, seenAtPoll, rc>>

(***************************************************************************)
(* The worker process                                                      *)
(***************************************************************************)
\* the worker terminates, for any reason, with exit status code
WorkerExit(h, code) ==
  /\ worker[h] = "alive"
  /\ worker' = [worker EXCEPT ![h] = "dead"]
  /\ rc' = [rc EXCEPT ![h] = code]
  /\ exitAge' = IF h = nSpawn /\ pc # "exited" THEN 0 ELSE exitAge
  /\ UNCHANGED <<pc, cur, proc, nSpawn, termReq, exitCause, lastLog, failStreak, timer, sinceAttempt>>
  /\ UNCHANGED <<serverVars, relayVars, seenAtPoll>>

\* the worker writes one line to its output, a short or a long one
WorkerEmit(h, long) ==
  LET line == IF long THEN LongLine(nEmit + 1) ELSE WorkerLine(nEmit + 1)
  IN  /\ worker[h] = "alive"
      /\ nEmit < MaxEmit
      /\ nEmit' = nEmit + 1
      /\ pipe' = [pipe EXCEPT ![h] = Append(@, line)]
      /\ emitted' = [emitted EXCEPT ![h] = Append(@, line)]
      /\ UNCHANGED <<fwd, inflight, delivered, attempts>>
  /\ UNCHANGED <<serverVars, supVars, seenAtPoll>>

(***************************************************************************)
(* model_train.py: udp_stream_handler                                      *)
(***************************************************************************)
\* the first sendto, of the attach banner; an exception here is caught by the
\* outer handler, which ends the thread
FwdAttach(h, ok) ==
  /\ fwd[h] = "attach"
  /\ pc # "exited"
  /\ attempts' = [attempts EXCEPT ![h] = Append(@, AttachBanner)]
  /\ IF ok
     THEN /\ inflight' = inflight \cup {AttachBanner}
          /\ fwd' = [fwd EXCEPT ![h] = "reading"]
     ELSE /\ fwd' = [fwd EXCEPT ![h] = "done"]
          /\ UNCHANGED inflight
  /\ UNCHANGED <<pipe, nEmit, delivered, emitted>>
  /\ UNCHANGED <<serverVars, supVars, seenAtPoll>>

\* a read that jumps to the newest line and drops the ones before it
readline_latest(p) == [line |-> p[Len(p)], rest |-> <<>>]

\* process.stdout.readline(): the oldest unread line; the rest stays unread
readline(p) == [line |-> Head(p), rest |-> Tail(p)]

\* a payload without its line terminator
datagram_stripped(line) == SubSeq(line, 1, Len(line) - 1)

\* the payload of sock.sendto(line, target): the bytes of the line as read
datagram(line) == line

\* readline returns a line: sendto(line); an exception of sendto is dropped
FwdForward(h, ok) ==
  LET got == readline(pipe[h])
  IN  /\ fwd[h] = "reading"
      /\ pc # "exited"
      /\ pipe[h] # <<>>
      /\ pipe' = [pipe EXCEPT ![h] = got.rest]
      /\ attempts' = [attempts EXCEPT ![h] = Append(@, datagram(got.line))]
      /\ inflight' = IF ok THEN inflight \cup {datagram(got.line)} ELSE inflight
      /\ UNCHANGED <<fwd, nEmit, delivered, emitted>>
  /\ UNCHANGED <<serverVars, supVars, seenAtPoll>>

\* readline returns b'' at the end of the stream: the thread ends
FwdEof(h) ==
  /\ fwd[h] = "reading"
  /\ pc # "exited"
  /\ pipe[h] = <<>>
  /\ worker[h] = "dead"
  /\ fwd' = [fwd EXCEPT ![h] = "done"]
  /\ UNCHANGED <<pipe, nEmit, inflight, delivered, histVars>>
  /\ UNCHANGED <<serverVars, supVars, seenAtPoll>>

(***************************************************************************)
(* The datagram transport and the viewer                                   *)
(***************************************************************************)
\* a datagram arrives at 127.0.0.1:65000; telemetry_server.py binds no socket
\* there and nothing else in the repository does, so no state changes with it
Deliver(d) ==
  /\ d \in inflight
  /\ inflight' = inflight \ {d}
  /\ delivered' = delivered \cup {d}
  /\ UNCHANGED <<fwd, pipe, nEmit, histVars>>
  /\ UNCHANGED <<serverVars, supVars, seenAtPoll>>

\* the transport loses a datagram
Lose(d) ==
  /\ d \in inflight
  /\ inflight' = inflight \ {d}
  /\ UNCHANGED <<fwd, pipe, nEmit, delivered, histVars>>
  /\ UNCHANGED <<serverVars, supVars, seenAtPoll>>

\* fetchLogs of the viewer page, with its position at 0
PollRequest ==
  [method |-> "GET", path |-> "/stream", query |-> << <<"pos", <<"0">>>> >>,
   auth |-> <<BearerPrefix \o ACCESS_TOKEN>>]

\* the supervisor and its worker, second by second
SupervisorNext ==
  \/ PopenOk
  \/ PopenFail
  \/ ThreadStartOk
  \/ ThreadStartFail
  \/ Attach
  \/ SetupDone
  \/ Poll
  \/ BatchDone
  \/ DelayDone
  \/ Interrupt
  \/ Elapse(1)
  \/ \E h \in Handles, code \in ExitCodes : WorkerExit(h, code)

\* one worker lifetime of the whole pipeline, time passing one sleep at a time
RelayNext ==
  \/ PopenOk
  \/ ThreadStartOk
  \/ Attach
  \/ SetupDone
  \/ Poll
  \/ BatchDone
  \/ Interrupt
  \/ Elapse(timer)
  \/ \E h \in Handles, code \in ExitCodes : WorkerExit(h, code)
  \/ \E h \in Handles, long \in BOOLEAN : WorkerEmit(h, long)
  \/ \E h \in Handles, ok \in BOOLEAN : FwdAttach(h, ok)
  \/ \E h \in Handles, ok \in BOOLEAN : FwdForward(h, ok)
  \/ \E h \in Handles : FwdEof(h)
  \/ \E d \in inflight : Deliver(d)
  \/ \E d \in inflight : Lose(d)
  \/ HandleRequest(PollRequest)

\* one worker lifetime of the supervisor, the worker and the forwarder thread
ForwarderNext ==
  \/ PopenOk
  \/ ThreadStartOk
  \/ Attach
  \/ SetupDone
  \/ Poll
  \/ BatchDone
  \/ Interrupt
  \/ Elapse(timer)
  \/ \E h \in Handles, code \in ExitCodes : WorkerExit(h, code)
  \/ \E h \in Handles, long \in BOOLEAN : WorkerEmit(h, long)
  \/ \E h \in Handles, ok \in BOOLEAN : FwdAttach(h, ok)
  \/ \E h \in Handles, ok \in BOOLEAN : FwdForward(h, ok)
  \/ \E h \in Handles : FwdEof(h)

Init == ServerInit /\ SystemInit

SpecServer == Init /\ [][ServerNext]_vars

SpecViewer == Init /\ [][ViewerNext]_vars

SpecSupervisor == Init /\ [][SupervisorNext]_vars

\* the steps of the supervisor's main thread; the thread is always scheduled
\* again and its sleeps end
MainThread ==
  \/ PopenOk
  \/ PopenFail
  \/ ThreadStartOk
  \/ ThreadStartFail
  \/ Attach
  \/ SetupDone
  \/ Poll
  \/ BatchDone
  \/ DelayDone
  \/ Elapse(1)

SpecSupervisorFair == Init /\ [][SupervisorNext]_vars /\ WF_vars(MainThread)

SpecRelay == Init /\ [][RelayNext]_vars

SpecForwarder == Init /\ [][ForwarderNext]_vars

(***************************************************************************)
(* Claims about the HTTP service                                           *)
(***************************************************************************)
\* what a request presents, read off the request itself
QueryTokens(r) == {r.query[i][2] : i \in {j \in DOMAIN r.query : r.query[j][1] = "token"}}

HeaderValid(r) == r.auth # <<>> /\ r.auth[1] = BearerPrefix \o ACCESS_TOKEN

QueryValid(r) == ACCESS_TOKEN \in QueryTokens(r)

ValidCredential(r) == QueryValid(r) \/ HeaderValid(r)

Handled == req # NoRequest

\* the request passed the Auth Gate and went on to routing
Accepted == resp.status # 403 /\ steps # <<>> /\ steps[1] = "auth" /\ Len(steps) > 1

\* C1: every request without a valid credential, of any method and path, is
\* answered 403, and nothing but the credential check was done for it.
C1_DeniedBeforeAnyProcessing ==
  (Handled /\ ~ValidCredential(req)) => (resp.status = 403 /\ steps = <<"auth">>)

\* C2: a GET presenting only strings other than the configured token is
\* answered 403; a GET presenting the configured token in the query or in
\* the header is accepted whatever the other channel carries.
C2_ExactTokenDecides ==
  (Handled /\ req.method = "GET") =>
    /\ ~ValidCredential(req) => resp.status = 403
    /\ QueryValid(req) => Accepted
    /\ HeaderValid(req) => Accepted

\* C2 witness: a wrong token in the query with the right one in the header is
\* accepted.
C2_Witness ==
  /\ req.method = "GET"
  /\ QueryTokens(req) = {WrongToken}
  /\ HeaderValid(req)
  /\ resp.status = 200

\* C3: every authenticated GET /stream, for every pos, is answered 200 with
\* a JSON body of logs and position, and no internal error detail.
C3_StreamAlwaysAnswers ==
  (Handled /\ req.method = "GET" /\ req.path = "/stream" /\ ValidCredential(req)) =>
    /\ resp.status = 200
    /\ resp.body.kind = "json"
    /\ \A i \in DOMAIN resp.body.logs : resp.body.logs[i] # ERROR_PREFIX

\* C4: an authenticated GET of / returns 200 with the viewer page and of any
\* path other than / and /stream returns 404; an unauthenticated GET returns
\* 403, so 404 never goes to a caller without a valid credential.
C4_Routing ==
  (Handled /\ req.method = "GET") =>
    /\ (ValidCredential(req) /\ req.path = "/") =>
          resp = send_response(200, "text/html", TextBody(DASHBOARD_TEMPLATE))
    /\ (ValidCredential(req) /\ req.path \notin {"/", "/stream"}) =>
          resp.status = 404
    /\ ~ValidCredential(req) => resp.status = 403
    /\ resp.status = 404 => ValidCredential(req)

\* C4 witness: an authenticated GET of an unknown path got 404.
C4_Witness ==
  /\ req.method = "GET"
  /\ req.path = "/other"
  /\ ValidCredential(req)
  /\ resp.status = 404

\* C5: no snapshot response contains more than N lines, N the capacity of
\* the buffer.
C5_AtMostCapacityLines ==
  (Handled /\ resp.body.kind = "json") =>
    CountLines(resp.body.logs) <= BufferCapacity

\* C10: two consecutive identical requests with no line appended between
\* them get identical responses.
C10_SnapshotIdempotent == quiet => resp = prevResp

\* C10 witness: an authenticated /stream request repeated after the log grew,
\* with nothing appended between the two, returned content both times.
C10_Witness ==
  /\ quiet
  /\ req.path = "/stream"
  /\ resp.status = 200
  /\ CountLines(resp.body.logs) > 1
  /\ prevResp.status = 200

(***************************************************************************)
(* Claims about the relay, the supervisor and the worker                   *)
(***************************************************************************)
\* part occurs in text as a contiguous run of characters
Contains(text, part) ==
  \E i \in 0..(Len(text) - Len(part)) : SubSeq(text, i + 1, i + Len(part)) = part

\* C6: every line whose datagram arrived at 127.0.0.1:65000 is in the logs
\* of a /stream response produced after its arrival.
C6_DeliveredLinesServed ==
  (req = PollRequest /\ resp.status = 200) =>
    \A d \in seenAtPoll : Contains(resp.body.logs, d)

\* C7: while the newest worker has terminated and no new spawn attempt has
\* begun, no more than restart_delay + epsilon seconds have passed since its
\* termination.
C7_RestartWithinDelay == exitAge <= RESTART_DELAY + Epsilon

\* C8: a failed spawn is logged, leaves no handle and puts the supervisor in
\* its restart delay; the next attempt starts when the whole delay has
\* passed; the supervisor process ends on an operator interrupt only.
C8_SpawnFailureRetried ==
  /\ [](pc = "exited" => exitCause \in {"sys.exit", "KeyboardInterrupt"})
  /\ []((lastLog = "FATAL KERNEL ERROR" /\ pc # "exited") =>
          (pc = "delay" /\ cur = 0 /\ failStreak > 0))
  /\ [][(pc = "delay" /\ pc' = "launch" /\ lastLog = "FATAL KERNEL ERROR") =>
          sinceAttempt >= RESTART_DELAY]_vars

\* C8 witness: after two failed spawns in a row the third attempt begins.
C8_Witness ==
  /\ failStreak >= 2
  /\ pc = "launch"
  /\ lastLog = "Reinitializing System..."
  /\ exitCause = ""

\* C9: when the supervisor has exited on an interrupt, every worker that is
\* alive was asked to terminate.
C9_InterruptTerminatesWorker ==
  pc = "exited" => \A h \in Handles : worker[h] = "alive" => h \in termReq

\* C11: once the supervisor has exited through its interrupt handler, the
\* worker it asked to terminate is no longer running.
C11_WorkerGoneAfterShutdown ==
  (pc = "exited" /\ exitCause = "sys.exit") => worker[cur] # "alive"

\* the newest worker has terminated and no spawn attempt has begun since
WorkerGone == nSpawn > 0 /\ worker[nSpawn] = "dead" /\ exitAge >= 0

\* C12: every exit of the worker, with any exit status, is followed by a new
\* spawn attempt, unless an operator interrupt ends the supervisor.
C12_ExitLeadsToSpawn == WorkerGone ~> (pc = "launch" \/ pc = "exited")

\* C12 witness: a worker that exited with status 0 was detected by the poll
\* and the next spawn attempt has begun.
C12_Witness ==
  /\ pc = "launch"
  /\ lastLog = "Reinitializing System..."
  /\ cur > 0
  /\ worker[cur] = "dead"
  /\ rc[cur] = 0

\* C16: a spawn attempt begins no sooner than the restart delay after the
\* attempt before it began, after a detected exit and after a failed spawn.
C16_AttemptsSeparated ==
  [][(pc # "launch" /\ pc' = "launch") => sinceAttempt >= RESTART_DELAY]_vars

\* C16 witness: the attempt after a failed spawn that followed a worker's
\* lifetime has begun.
C16_Witness ==
  /\ pc = "launch"
  /\ lastLog = "Reinitializing System..."
  /\ nSpawn = 1
  /\ worker[1] = "dead"
  /\ failStreak = 1

\* C18: at most one worker process is alive at any moment.
C18_AtMostOneWorker == Cardinality({h \in Handles : worker[h] = "alive"}) <= 1

\* the datagrams the forwarders have sent: sendto returned without an error
Sent == inflight \cup delivered

\* the lines the workers have written to their output streams
StreamLines ==
  UNION {{emitted[h][j] : j \in 1..Len(emitted[h])} : h \in Handles}

\* C13: a failed send never ends the reading loop: while the supervisor runs,
\* a forwarder has stopped only after it read its worker's stream to the end
\* (the worker has exited and no written line is left unread).
C13_SendFailureKeepsReading ==
  \A h \in Handles :
    (fwd[h] = "done" /\ pc # "exited") => (worker[h] = "dead" /\ pipe[h] = <<>>)

\* C14 as stated: every datagram a forwarder sent is a line of a worker's
\* output stream.
C14_OnlyStreamLines == \A d \in Sent : d \in StreamLines

\* C14 amended: the first payload a forwarder passes to sendto is the attach
\* banner, and the i-th payload after it is exactly the i-th line its worker
\* wrote, byte for byte; so every datagram sent is the banner or one line.
C14_BannerThenStreamLines ==
  /\ \A h \in Handles : \A i \in 1..Len(attempts[h]) :
        IF i = 1 THEN attempts[h][i] = AttachBanner
        ELSE i - 1 <= Len(emitted[h]) /\ attempts[h][i] = emitted[h][i - 1]
  /\ \A d \in Sent : d = AttachBanner \/ d \in StreamLines

\* C14 witness: a forwarder has sent its banner and a line of its worker.
C14_Witness ==
  \E h \in Handles :
    /\ Len(attempts[h]) >= 2
    /\ AttachBanner \in Sent
    /\ emitted[h][1] \in Sent

\* the lines whose send the forwarder of h attempted, in the order of the
\* attempts: the attempts after the banner
LinesAttempted(h) == IF attempts[h] = <<>> THEN <<>> ELSE Tail(attempts[h])

\* C15: within a worker's lifetime the lines whose send was attempted, in the
\* order of the attempts, followed by the lines not yet read, are the lines the
\* worker wrote, in the order it wrote them: each line read is attempted once,
\* in order, none twice and none skipped.
C15_EachLineOnceInOrder ==
  \A h \in Handles : LinesAttempted(h) \o pipe[h] = emitted[h]

\* C15 witness: a forwarder attempted two lines; the send of the first failed
\* and the send of the second succeeded.
C15_Witness ==
  \E h \in Handles :
    /\ Len(attempts[h]) = 3
    /\ attempts[h][2] \notin Sent
    /\ attempts[h][3] \in Sent

\* C17: no datagram a forwarder sent has a payload longer than 4096 bytes.
C17_PayloadWithinLimit == \A d \in Sent : ByteLen(d) <= 4096

\* C19: a page that polls from position 0 and passes on each returned position
\* has been given, in all, exactly the content of the log source up to its
\* position, each byte once, and neither its position nor the position the
\* server returns ever decreases.
C19_IncrementalPolling ==
  /\ [](shown = SubSeq(logFile, 1, lastPosition))
  /\ [][lastPosition' >= lastPosition]_vars
  /\ [][(resp.status = 200 /\ resp'.status = 200)
          => resp'.body.position >= resp.body.position]_vars

\* C19 witness: a poll that asked with a two-digit position got lines appended
\* since the poll before it, and the page holds the whole log source.
C19_Witness ==
  /\ req.path = "/stream"
  /\ Len(req.query) = 1
  /\ Len(req.query[1][2]) = 2
  /\ resp.status = 200
  /\ Len(resp.body.logs) > 0
  /\ lastPosition = Len(logFile)
  /\ shown = logFile

====
